---- MODULE Spec2Model ----
(***************************************************************************)
(* The Little Man Computer assembler of src/assembler.py: the two passes   *)
(* of LMCAssembler.assemble over the source lines, the memory image and    *)
(* listing they produce, the initialisers generate_c_code emits, and the   *)
(* fetch-decode-execute loop of the emitted C program.                     *)
(*                                                                         *)
(* Text is modelled as sequences of one-character strings.  An Optional    *)
(* value is a sequence of length at most one: <<>> is Python's None and    *)
(* <<v>> holds v.                                                          *)
(***************************************************************************)
EXTENDS Integers, Sequences, FiniteSets, TLC

None == <<>>
Some(v) == <<v>>

(***************************************************************************)
(* Characters                                                              *)
(***************************************************************************)
Whitespace == {" ", "\t", "\n"}
LowerCase == <<"a","b","c","d","e","f","g","h","i","j","k","l","m",
               "n","o","p","q","r","s","t","u","v","w","x","y","z">>
UpperCase == <<"A","B","C","D","E","F","G","H","I","J","K","L","M",
               "N","O","P","Q","R","S","T","U","V","W","X","Y","Z">>
Digits == <<"0","1","2","3","4","5","6","7","8","9">>

\* the first position of c in seq, 0 when it is not there
IndexOf(c, seq) ==
    LET at == {i \in 1..Len(seq) : seq[i] = c}
    IN  IF at = {} THEN 0 ELSE CHOOSE i \in at : \A j \in at : i <= j

\* str.upper() on one character, then on a token
UpperChar(c) ==
    LET i == IndexOf(c, LowerCase)
    IN  IF i > 0 THEN UpperCase[i] ELSE c
Upper(s) == [i \in 1..Len(s) |-> UpperChar(s[i])]

StartsWith(s, p) == Len(s) >= Len(p) /\ SubSeq(s, 1, Len(p)) = p
EndsWith(s, p) == Len(s) >= Len(p) /\ SubSeq(s, Len(s) - Len(p) + 1, Len(s)) = p

(***************************************************************************)
(* parse_line: re.sub(r'//.*', '', line), strip(), re.split(r'\s+', line)  *)
(***************************************************************************)
Min(S) == CHOOSE i \in S : \A j \in S : i <= j
RECURSIVE StripComment(_)
\* every "//" and what follows it up to the next newline is removed: '.' does
\* not match a newline
StripComment(s) ==
    LET starts == {i \in 1..(Len(s) - 1) : s[i] = "/" /\ s[i + 1] = "/"}
        start == Min(starts)
        ends == {j \in start..Len(s) : s[j] = "\n"}
    IN  IF starts = {} THEN s
        ELSE IF ends = {} THEN SubSeq(s, 1, start - 1)
        ELSE SubSeq(s, 1, start - 1) \o StripComment(SubSeq(s, Min(ends), Len(s)))

RECURSIVE LStrip(_)
LStrip(s) == IF s # <<>> /\ s[1] \in Whitespace THEN LStrip(Tail(s)) ELSE s
RECURSIVE RStrip(_)
RStrip(s) ==
    IF s # <<>> /\ s[Len(s)] \in Whitespace THEN RStrip(SubSeq(s, 1, Len(s) - 1)) ELSE s
Strip(s) == RStrip(LStrip(s))

\* re.split(r'\s+', s): the maximal runs of non-whitespace of s, with an empty
\* string where s starts or ends with whitespace (never so on a stripped line)
RECURSIVE SplitFrom(_, _)
SplitFrom(s, cur) ==
    IF s = <<>> THEN <<cur>>
    ELSE IF s[1] \in Whitespace THEN <<cur>> \o SplitFrom(LStrip(s), <<>>)
    ELSE SplitFrom(Tail(s), Append(cur, s[1]))
Split(s) == SplitFrom(s, <<>>)

\* the (label, instruction, operand) triple of parse_line, each an Optional
ParsedLine(label, instruction, operand) ==
    [label |-> label, instruction |-> instruction, operand |-> operand]

parse_line(line) ==
    LET stripped == Strip(StripComment(line))
        parts0 == Split(stripped)
        hasLabel == EndsWith(parts0[1], <<":">>)
        label == IF hasLabel THEN Some(SubSeq(parts0[1], 1, Len(parts0[1]) - 1)) ELSE None
        parts == IF hasLabel THEN Tail(parts0) ELSE parts0
    IN  IF stripped = <<>> THEN ParsedLine(None, None, None)
        ELSE ParsedLine(label,
                        IF parts # <<>> THEN Some(Upper(parts[1])) ELSE None,
                        IF Len(parts) > 1 THEN Some(parts[2]) ELSE None)

\* Python truthiness of an Optional[str]: None and "" are both false
Truthy(opt) == opt # None /\ opt[1] # <<>>

(***************************************************************************)
(* parse_operand: int(s), int(s, 16), int(s, 2); str(n); str.zfill         *)
(***************************************************************************)
\* the digits int() accepts in bases up to 16, by value; letters in either case
HexDigits == <<"0","1","2","3","4","5","6","7","8","9","A","B","C","D","E","F">>
DigitVal(c) == IndexOf(UpperChar(c), HexDigits) - 1

IsDigitOf(c, base) == DigitVal(c) \in 0..(base - 1)

RECURSIVE Magnitude(_, _, _)
\* the value of a nonempty run of digits of the base, read left to right
Magnitude(s, base, acc) ==
    IF s = <<>> THEN acc
    ELSE Magnitude(Tail(s), base, acc * base + DigitVal(s[1]))

AllDigits(s, base) == s # <<>> /\ \A i \in 1..Len(s) : IsDigitOf(s[i], base)

\* int(s, base) on a token: an optional sign, the optional radix prefix of a
\* base 16 or base 2 literal, then digits of the base; None for ValueError
PyInt(s, base) ==
    LET neg == StartsWith(s, <<"-">>)
        unsigned == IF neg \/ StartsWith(s, <<"+">>) THEN Tail(s) ELSE s
        prefix == IF base = 16 THEN <<"0", "x">> ELSE <<"0", "b">>
        hasPrefix == base # 10 /\ StartsWith(Upper(unsigned), Upper(prefix))
        body == IF hasPrefix THEN Tail(Tail(unsigned)) ELSE unsigned
    IN  IF AllDigits(body, base)
        THEN Some(IF neg THEN 0 - Magnitude(body, base, 0) ELSE Magnitude(body, base, 0))
        ELSE None

\* the value parse_operand returns, or None where it raises InvalidOperandError
parse_operand(operand_str) ==
    IF StartsWith(operand_str, <<"0", "x">>) THEN PyInt(operand_str, 16)
    ELSE IF StartsWith(operand_str, <<"0", "b">>) THEN PyInt(operand_str, 2)
    ELSE PyInt(operand_str, 10)

RECURSIVE StrNat(_)
StrNat(n) == IF n < 10 THEN <<Digits[n + 1]>> ELSE Append(StrNat(n \div 10), Digits[(n % 10) + 1])
\* str(n)
Str(n) == IF n < 0 THEN <<"-">> \o StrNat(0 - n) ELSE StrNat(n)

RECURSIVE Zeros(_)
Zeros(k) == IF k <= 0 THEN <<>> ELSE <<"0">> \o Zeros(k - 1)
\* str.zfill(width): zeros go after a leading sign
ZFill(s, width) ==
    IF s # <<>> /\ s[1] \in {"+", "-"}
    THEN <<s[1]>> \o Zeros(width - Len(s)) \o Tail(s)
    ELSE Zeros(width - Len(s)) \o s

(***************************************************************************)
(* The instruction table and the encoding of one line (pass 2)             *)
(***************************************************************************)
ADD == <<"A","D","D">>
SUB == <<"S","U","B">>
STA == <<"S","T","A">>
LDA == <<"L","D","A">>
BRA == <<"B","R","A">>
BRZ == <<"B","R","Z">>
BRP == <<"B","R","P">>
INP == <<"I","N","P">>
OUT == <<"O","U","T">>
HLT == <<"H","L","T">>
DAT == <<"D","A","T">>
MUL == <<"M","U","L">>

\* the class attribute INSTRUCTIONS: mnemonic -> opcode text (None for DAT)
Mnemonics == {ADD, SUB, STA, LDA, BRA, BRZ, BRP, INP, OUT, HLT, DAT, MUL}
INSTRUCTIONS ==
    [m \in Mnemonics |->
        CASE m = ADD -> Some(<<"1">>)
          [] m = SUB -> Some(<<"2">>)
          [] m = STA -> Some(<<"3">>)
          [] m = LDA -> Some(<<"5">>)
          [] m = BRA -> Some(<<"6">>)
          [] m = BRZ -> Some(<<"7">>)
          [] m = BRP -> Some(<<"8">>)
          [] m = INP -> Some(<<"9","0","1">>)
          [] m = OUT -> Some(<<"9","0","2">>)
          [] m = HLT -> Some(<<"0","0","0">>)
          [] m = DAT -> None
          [] m = MUL -> Some(<<"4">>)]

\* dict.get(key): None for a missing key
Get(dict, key) == IF key \in DOMAIN dict THEN dict[key] ELSE None

memory_size == 100
DatMin == -999
DatMax == 999
OperandMin == 0
OperandMax == 99

\* a label table shared by all instances (a class attribute), here already
\* holding a label of another instance
NewLabels_Shared == [l \in {<<"a">>} |-> 0]

\* __init__: the label table and the memory image of a new instance
NewLabels == [l \in {} |-> 0]
NewMemory == [a \in 0..(memory_size - 1) |-> None]

\* an exception: its class and the line number in its message (None when the
\* message names no line)
Raise(kind, line) == [kind |-> kind, line |-> Some(line)]
\* list assignment index out of range, raised by self.memory[address] = ...
IndexError == [kind |-> "IndexError", line |-> None]

\* the line number first_pass and assemble put in their own messages
MessageLine(line_number) == line_number + 1
\* the line number parse_operand puts in its message, from its parameter
OperandMessageLine(line_number) == line_number + 1
\* the line number assemble passes to parse_operand
OperandCallLine(line_number) == line_number + 1

\* f"{address:02d}" for an address >= 0
Format02d(address) == ZFill(Str(address), 2)
ListingEntry(address, text) == Format02d(address) \o <<":", " ">> \o text

\* int(opcode + str(operand_address).zfill(2))
InstructionCode(opcode, operand_address) ==
    PyInt(opcode \o ZFill(Str(operand_address), 2), 10)[1]

\* lines 135-140: the label table first, else the literal with its range check;
\* Some(address), or the error raised
ResolveOperand(operand, labels, line_number) ==
    IF operand \in DOMAIN labels
    THEN [address |-> Some(labels[operand]), raise |-> None]
    ELSE LET parsed == parse_operand(operand)
         IN  IF parsed = None
             THEN [address |-> None,
                   raise |-> Some(Raise("InvalidOperandError",
                                        OperandMessageLine(OperandCallLine(line_number))))]
             ELSE IF ~(OperandMin <= parsed[1] /\ parsed[1] <= OperandMax)
             THEN [address |-> None,
                   raise |-> Some(Raise("OperandRangeError", MessageLine(line_number)))]
             ELSE [address |-> parsed, raise |-> None]

Word(value, text) == [word |-> Some(value), text |-> text, raise |-> None]
Failure(kind, line) == [word |-> None, text |-> <<>>, raise |-> Some(Raise(kind, line))]

\* a DAT line whose range check leaves out the two ends of the range
EncodeDat_RejectsEnds(operand, line_number) ==
    LET value == IF operand = None THEN Some(0) ELSE parse_operand(operand[1])
    IN  IF value = None
        THEN Failure("InvalidOperandError", OperandMessageLine(OperandCallLine(line_number)))
        ELSE IF ~(DatMin < value[1] /\ value[1] < DatMax)
        THEN Failure("OperandRangeError", MessageLine(line_number))
        ELSE Word(value[1], ZFill(Str(value[1]), 3))

\* lines 108-120: the word of a DAT line
EncodeDat(operand, line_number) ==
    LET value == IF operand = None THEN Some(0) ELSE parse_operand(operand[1])
    IN  IF value = None
        THEN Failure("InvalidOperandError", OperandMessageLine(OperandCallLine(line_number)))
        ELSE IF ~(DatMin <= value[1] /\ value[1] <= DatMax)
        THEN Failure("OperandRangeError", MessageLine(line_number))
        ELSE Word(value[1], ZFill(Str(value[1]), 3))

\* pass 2 that resolves the operand token of every line before it looks at
\* the mnemonic
EncodeInstruction_ResolvesIoOperand(instruction, operand, labels, line_number) ==
    LET opcode == Get(INSTRUCTIONS, instruction)
        resolved == ResolveOperand(operand[1], labels, line_number)
        instruction_code == InstructionCode(opcode[1], resolved.address[1])
    IN  IF opcode = None
        THEN Failure("InvalidInstructionError", MessageLine(line_number))
        ELSE IF operand = None
        THEN (IF instruction \in {INP, OUT, HLT}
              THEN Word(PyInt(opcode[1], 10)[1], opcode[1])
              ELSE Failure("InvalidOperandError", MessageLine(line_number)))
        ELSE IF resolved.raise # None
        THEN [word |-> None, text |-> <<>>, raise |-> resolved.raise]
        ELSE IF instruction \in {INP, OUT, HLT}
        THEN Word(PyInt(opcode[1], 10)[1], opcode[1])
        ELSE Word(instruction_code, ZFill(Str(instruction_code), 3))

\* lines 122-144: the word of any other line with a mnemonic
EncodeInstruction(instruction, operand, labels, line_number) ==
    LET opcode == Get(INSTRUCTIONS, instruction)
        resolved == ResolveOperand(operand[1], labels, line_number)
        instruction_code == InstructionCode(opcode[1], resolved.address[1])
    IN  IF opcode = None
        THEN Failure("InvalidInstructionError", MessageLine(line_number))
        ELSE IF instruction \in {INP, OUT, HLT}
        THEN Word(PyInt(opcode[1], 10)[1], opcode[1])
        ELSE IF operand = None
        THEN Failure("InvalidOperandError", MessageLine(line_number))
        ELSE IF resolved.raise # None
        THEN [word |-> None, text |-> <<>>, raise |-> resolved.raise]
        ELSE Word(instruction_code, ZFill(Str(instruction_code), 3))

Encode(parsed, labels, line_number) ==
    IF parsed.instruction[1] = DAT
    THEN EncodeDat(parsed.operand, line_number)
    ELSE EncodeInstruction(parsed.instruction[1], parsed.operand, labels, line_number)

\* pass 1 that forgets that DAT uses a memory address
FirstPassAdvance_SkipsDat(instruction, address) ==
    IF Truthy(instruction) /\ instruction[1] # DAT THEN address + 1 ELSE address

\* lines 91-94: the address after a line of pass 1
FirstPassAdvance(instruction, address) ==
    IF Truthy(instruction) /\ instruction[1] # DAT THEN address + 1
    ELSE IF instruction = Some(DAT) THEN address + 1
    ELSE address

\* pass 2 that forgets address += 1 on the INP/OUT/HLT path
AssembleAdvance_SkipsIo(instruction, address) ==
    IF instruction \in {INP, OUT, HLT} THEN address ELSE address + 1

\* lines 119, 129, 145: the address after a line of pass 2 that stored a word
AssembleAdvance(instruction, address) == address + 1

\* pass 1 that lets a second definition replace the first
RecordLabel_Overwrites(labels, label, address) ==
    IF Truthy(label)
    THEN Some([l \in DOMAIN labels \cup {label[1]} |->
                  IF l = label[1] THEN address ELSE labels[l]])
    ELSE Some(labels)

\* lines 87-90: the label table after a line of pass 1, None for a duplicate
RecordLabel(labels, label, address) ==
    IF Truthy(label)
    THEN IF label[1] \in DOMAIN labels THEN None
         ELSE Some(labels @@ (label[1] :> address))
    ELSE Some(labels)

\* initialisers guarded by the truth of the value: a slot that holds 0 gets none
RECURSIVE Initialisers_SkipsZero(_, _, _)
Initialisers_SkipsZero(memory, lo, hi) ==
    IF lo > hi THEN <<>>
    ELSE IF lo = hi
    THEN (IF memory[lo] # None /\ memory[lo][1] # 0
          THEN <<<<lo, memory[lo][1]>>>> ELSE <<>>)
    ELSE LET mid == (lo + hi) \div 2
         IN  Initialisers_SkipsZero(memory, lo, mid)
                 \o Initialisers_SkipsZero(memory, mid + 1, hi)

\* lines 169-171: one initialiser (i, value) for each slot that holds a value,
\* in the order of the addresses lo..hi
RECURSIVE Initialisers(_, _, _)
Initialisers(memory, lo, hi) ==
    IF lo > hi THEN <<>>
    ELSE IF lo = hi
    THEN (IF memory[lo] # None THEN <<<<lo, memory[lo][1]>>>> ELSE <<>>)
    ELSE LET mid == (lo + hi) \div 2
         IN  Initialisers(memory, lo, mid) \o Initialisers(memory, mid + 1, hi)
generate_c_code(memory) == Initialisers(memory, 0, memory_size - 1)

(***************************************************************************)
(* State                                                                   *)
(***************************************************************************)
VARIABLES
    lines,          \* the argument of the running assemble call
    labels,         \* self.labels
    memory,         \* self.memory
    at,             \* where the call is: "first_pass", "assemble", "returned", "raised"
    line_number,    \* the loop index of the running pass (0-based)
    address,        \* the address counter of the running pass
    machine_code,   \* the listing built by pass 2
    c_code,         \* the initialisers of the emitted program, once generated
    raised,         \* the exception that ended the call, if any
    placed,         \* history: (line_number, address, word) of every store of pass 2
    calls,          \* the number of assemble calls made on the instance
    \* the emitted C program, compiled and run
    run,            \* "off", "loop" (at while), "switch", "returned", "exited", "undefined"
    c_memory,       \* int memory[100]
    accumulator,
    pc,
    instruction,
    operand,
    running,
    input_value,
    stdout          \* the last texts printed on the standard output, in order

asmVars == <<lines, labels, memory, at, line_number, address, machine_code, c_code,
             raised, placed, calls>>
runVars == <<run, c_memory, accumulator, pc, instruction, operand, running, input_value,
             stdout>>
vars == <<asmVars, runVars>>

\* no emitted program is running
NotRunning ==
    /\ run = "off"
    /\ c_memory = None
    /\ accumulator = None
    /\ pc = None
    /\ instruction = None
    /\ operand = None
    /\ running = None
    /\ input_value = None
    /\ stdout = None

\* LMCAssembler() followed by the call assemble(src)
Construct(src) ==
    /\ lines = src
    /\ labels = NewLabels
    /\ memory = NewMemory
    /\ at = "first_pass"
    /\ line_number = 0
    /\ address = 0
    /\ machine_code = <<>>
    /\ c_code = None
    /\ raised = None
    /\ placed = <<>>
    /\ calls = 1
    /\ NotRunning

(***************************************************************************)
(* first_pass, one loop iteration at a time                                *)
(***************************************************************************)
FirstPassLine ==
    /\ at = "first_pass"
    /\ line_number < Len(lines)
    /\ LET parsed == parse_line(lines[line_number + 1])
           recorded == RecordLabel(labels, parsed.label, address)
       IN  IF recorded = None
           THEN /\ raised' = Some(Raise("DuplicateLabelError", MessageLine(line_number)))
                /\ at' = "raised"
                /\ UNCHANGED <<labels, address, line_number>>
           ELSE /\ labels' = recorded[1]
                /\ address' = FirstPassAdvance(parsed.instruction, address)
                /\ line_number' = line_number + 1
                /\ UNCHANGED <<raised, at>>
    /\ UNCHANGED <<lines, memory, machine_code, c_code, placed, calls, runVars>>

\* first_pass returns; assemble sets machine_code = [] and address = 0
FirstPassReturn ==
    /\ at = "first_pass"
    /\ line_number = Len(lines)
    /\ at' = "assemble"
    /\ machine_code' = <<>>
    /\ address' = 0
    /\ line_number' = 0
    /\ UNCHANGED <<lines, labels, memory, c_code, raised, placed, calls, runVars>>

(***************************************************************************)
(* The loop of assemble (pass 2), one iteration at a time                  *)
(***************************************************************************)
AssembleLine ==
    /\ at = "assemble"
    /\ line_number < Len(lines)
    /\ LET parsed == parse_line(lines[line_number + 1])
           encoded == Encode(parsed, labels, line_number)
       IN  IF ~Truthy(parsed.instruction)
           THEN /\ line_number' = line_number + 1
                /\ UNCHANGED <<memory, machine_code, address, raised, at, placed>>
           ELSE IF encoded.raise # None
           THEN /\ raised' = encoded.raise
                /\ at' = "raised"
                /\ UNCHANGED <<memory, machine_code, address, line_number, placed>>
           ELSE IF address \notin DOMAIN memory
           THEN /\ raised' = Some(IndexError)
                /\ at' = "raised"
                /\ UNCHANGED <<memory, machine_code, address, line_number, placed>>
           ELSE /\ memory' = [memory EXCEPT ![address] = encoded.word]
                /\ machine_code' = Append(machine_code, ListingEntry(address, encoded.text))
                /\ placed' = Append(placed, [line_number |-> line_number,
                                             address |-> address,
                                             word |-> encoded.word[1]])
                /\ address' = AssembleAdvance(parsed.instruction[1], address)
                /\ line_number' = line_number + 1
                /\ UNCHANGED <<raised, at>>
    /\ UNCHANGED <<lines, labels, c_code, calls, runVars>>

\* c_code = self.generate_c_code(); return machine_code, c_code
AssembleReturn ==
    /\ at = "assemble"
    /\ line_number = Len(lines)
    /\ c_code' = Some(generate_c_code(memory))
    /\ at' = "returned"
    /\ UNCHANGED <<lines, labels, memory, line_number, address, machine_code, raised,
                   placed, calls, runVars>>

(***************************************************************************)
(* The emitted C program: main() of the text generate_c_code returns       *)
(***************************************************************************)
\* C's / and % on int: the quotient truncates toward zero and the remainder
\* has the sign of the dividend (b > 0 here)
CDiv(a, b) == IF a >= 0 THEN a \div b ELSE 0 - ((0 - a) \div b)
CRem(a, b) == a - b * CDiv(a, b)

\* the bound in if (pc >= 100), the size of int memory[100]
CMemorySize == 100
\* the divisor of memory[pc] / 100 and memory[pc] % 100
DecodeBase == 100
\* the divisor of accumulator %= 1000
AccumulatorModulus == 1000
InputMin == 0
InputMax == 999

\* int memory[100] = {0}; then the emitted memory[i] = value; statements in
\* their order: the last statement for a slot decides its value
InitialCMemory(inits) ==
    [a \in 0..(CMemorySize - 1) |->
        LET writes == {k \in 1..Len(inits) : inits[k][1] = a}
        IN  IF writes = {} THEN 0
            ELSE inits[CHOOSE k \in writes : \A j \in writes : j <= k][2]]

\* the declarations of main: instruction, operand and input_value start
\* uninitialised and are written before they are read
RunStart ==
    /\ at = "returned"
    /\ run = "off"
    /\ run' = "loop"
    /\ accumulator' = 0
    /\ c_memory' = InitialCMemory(c_code[1])
    /\ pc' = 0
    /\ running' = 1
    /\ UNCHANGED <<instruction, operand, input_value, stdout>>
    /\ UNCHANGED asmVars

\* while (running) is false: return 0
LoopExit ==
    /\ run = "loop"
    /\ running = 0
    /\ run' = "returned"
    /\ UNCHANGED <<c_memory, accumulator, pc, instruction, operand, running, input_value,
                   stdout>>
    /\ UNCHANGED asmVars

\* printf: stdout keeps the last MaxOutput texts printed, the newest last
MaxOutput == 2
Emit(out, text) ==
    LET all == Append(out, text)
    IN  IF Len(all) > MaxOutput
        THEN SubSeq(all, Len(all) - MaxOutput + 1, Len(all))
        ELSE all

\* a decode that keeps three digits of the word for the operand
DecodeOperand_KeepsThreeDigits(word) == CRem(word, AccumulatorModulus)

\* the decode of lines 182-183
DecodeInstruction(word) == CDiv(word, DecodeBase)
DecodeOperand(word) == CRem(word, DecodeBase)

\* lines 177-184: the bounds check, the fetch, the decode, pc++
Fetch ==
    /\ run = "loop"
    /\ running # 0
    /\ IF pc >= CMemorySize
       THEN /\ stdout' = Emit(stdout, <<"Error: Program counter out of bounds">>)
            /\ run' = "exited"
            /\ UNCHANGED <<instruction, operand, pc>>
       ELSE IF pc \notin DOMAIN c_memory
       THEN /\ run' = "undefined"
            /\ UNCHANGED <<instruction, operand, pc, stdout>>
       ELSE /\ instruction' = DecodeInstruction(c_memory[pc])
            /\ operand' = DecodeOperand(c_memory[pc])
            /\ pc' = pc + 1
            /\ run' = "switch"
            /\ UNCHANGED stdout
    /\ UNCHANGED <<c_memory, accumulator, running, input_value>>
    /\ UNCHANGED asmVars

\* what scanf("%d", &input_value) can deliver; None when it does not return 1
InputValues == {None, Some(-1), Some(0), Some(3), Some(999), Some(1000)}

\* case 1 without accumulator %= 1000
ExecAdd_NoModulus(acc, word) == acc + word
\* case 2 without the test if (accumulator < 0)
ExecSub_NoClamp(acc, word) == acc - word
\* the arithmetic of cases 1, 2 and 4
ExecAdd(acc, word) == CRem(acc + word, AccumulatorModulus)
ExecSub(acc, word) == IF acc - word < 0 THEN 0 ELSE acc - word
ExecMul(acc, word) == CRem(acc * word, AccumulatorModulus)
\* case 8 with the condition accumulator > 0
BranchTaken_BrpOnPositive(opcode, acc) ==
    CASE opcode = 6 -> TRUE
      [] opcode = 7 -> acc = 0
      [] opcode = 8 -> acc > 0
\* case 6 with the condition of case 7
BranchTaken_BraOnZero(opcode, acc) ==
    CASE opcode \in {6, 7} -> acc = 0
      [] opcode = 8 -> acc >= 0

\* the condition of the branch of cases 6, 7 and 8
BranchTaken(opcode, acc) ==
    CASE opcode = 6 -> TRUE
      [] opcode = 7 -> acc = 0
      [] opcode = 8 -> acc >= 0

\* case 9 with a plain else where the code has else if (operand == 2)
IsOutput_AnyOther(op) == op # 1

\* the conditions of the two branches of case 9
IsInput(op) == op = 1
IsOutput(op) == op = 2

\* lines 186-242: the switch
Execute ==
    /\ run = "switch"
    /\ IF instruction \in 1..5 /\ operand \notin DOMAIN c_memory
       THEN /\ run' = "undefined"
            /\ UNCHANGED <<c_memory, accumulator, pc, running, input_value, stdout>>
       ELSE CASE instruction = 0 ->
                 /\ running' = 0
                 /\ run' = "loop"
                 /\ UNCHANGED <<c_memory, accumulator, pc, input_value, stdout>>
              [] instruction = 1 ->
                 /\ accumulator' = ExecAdd(accumulator, c_memory[operand])
                 /\ run' = "loop"
                 /\ UNCHANGED <<c_memory, pc, running, input_value, stdout>>
              [] instruction = 2 ->
                 /\ accumulator' = ExecSub(accumulator, c_memory[operand])
                 /\ run' = "loop"
                 /\ UNCHANGED <<c_memory, pc, running, input_value, stdout>>
              [] instruction = 3 ->
                 /\ c_memory' = [c_memory EXCEPT ![operand] = accumulator]
                 /\ run' = "loop"
                 /\ UNCHANGED <<accumulator, pc, running, input_value, stdout>>
              [] instruction = 4 ->
                 /\ accumulator' = ExecMul(accumulator, c_memory[operand])
                 /\ run' = "loop"
                 /\ UNCHANGED <<c_memory, pc, running, input_value, stdout>>
              [] instruction = 5 ->
                 /\ accumulator' = c_memory[operand]
                 /\ run' = "loop"
                 /\ UNCHANGED <<c_memory, pc, running, input_value, stdout>>
              [] instruction \in 6..8 ->
                 /\ pc' = IF BranchTaken(instruction, accumulator) THEN operand ELSE pc
                 /\ run' = "loop"
                 /\ UNCHANGED <<c_memory, accumulator, running, input_value, stdout>>
              [] instruction = 9 /\ IsInput(operand) ->
                 \E read \in InputValues :
                    IF read = None
                    THEN /\ run' = "exited"
                         /\ stdout' = Emit(stdout, <<"Enter a value (0-999): ">>)
                         /\ UNCHANGED <<c_memory, accumulator, pc, running, input_value>>
                    ELSE LET valid == ~(read[1] < InputMin \/ read[1] > InputMax)
                         IN  /\ input_value' = IF valid THEN read[1] ELSE 0
                             /\ accumulator' = input_value'
                             /\ stdout' = IF valid
                                          THEN Emit(stdout, <<"Enter a value (0-999): ">>)
                                          ELSE Emit(Emit(stdout, <<"Enter a value (0-999): ">>),
                                                    <<"Invalid input. Using 0.">>)
                             /\ run' = "loop"
                             /\ UNCHANGED <<c_memory, pc, running>>
              [] instruction = 9 /\ ~IsInput(operand) /\ IsOutput(operand) ->
                 /\ stdout' = Emit(stdout, <<"Output: ", accumulator>>)
                 /\ run' = "loop"
                 /\ UNCHANGED <<c_memory, accumulator, pc, running, input_value>>
              [] instruction = 9 /\ ~IsInput(operand) /\ ~IsOutput(operand) ->
                 /\ run' = "loop"
                 /\ UNCHANGED <<c_memory, accumulator, pc, running, input_value, stdout>>
              [] OTHER ->
                 /\ stdout' = Emit(stdout, <<"Error: Invalid instruction ", instruction,
                                               " at address ", pc - 1>>)
                 /\ run' = "exited"
                 /\ UNCHANGED <<c_memory, accumulator, pc, running, input_value>>
    /\ UNCHANGED <<instruction, operand>>
    /\ UNCHANGED asmVars

(***************************************************************************)
(* Source programs                                                         *)
(***************************************************************************)
MaxLines == 3

NL == <<"\n">>
SP == <<" ">>
Label(name) == name \o <<":">>
RECURSIVE Join(_)
\* the tokens separated by single spaces
Join(tokens) ==
    IF tokens = <<>> THEN <<>>
    ELSE IF Len(tokens) = 1 THEN tokens[1]
    ELSE tokens[1] \o SP \o Join(Tail(tokens))

\* a source line: the tokens separated by spaces, ended by a newline
Line(tokens) == Join(tokens) \o NL

Catalogue ==
    { Line(<<Label(<<"a">>), LDA, <<"b">>>>),
      Line(<<Label(<<"b">>), DAT, <<"-","5">>, <<"/","/">>, <<"v">>>>),
      Label(<<"b">>),
      <<"/","/">> \o SP \o <<"c">> \o NL,
      Join(<<<<"b","r","a">>, <<"b">>>>),
      Join(<<OUT, <<"z","z">>>>),
      Join(<<Label(<<"a">>), <<"N","O","P">>>>),
      ADD,
      Join(<<STA, <<"1","0","0">>>>),
      Join(<<MUL, <<"0","b","1","1">>>>),
      Join(<<DAT, <<"1","0","0","0">>>>),
      Join(<<DAT, <<"0","x","g">>>>) }

RECURSIVE SeqsUpTo(_, _)
\* the sequences over S of length at most n
SeqsUpTo(S, n) ==
    IF n = 0 THEN {<<>>}
    ELSE LET shorter == SeqsUpTo(S, n - 1)
         IN  shorter \cup {Append(s, x) : s \in {t \in shorter : Len(t) = n - 1}, x \in S}

\* the scenarios of the specification's section 8
ScenarioA == <<Line(<<OUT>>), Line(<<HLT>>)>>
ScenarioB ==
    <<Line(<<Label(<<"l","o","o","p">>), LDA, <<"5">>>>),
      Line(<<ADD, <<"5">>>>),
      Line(<<BRA, <<"l","o","o","p">>>>),
      Line(<<HLT>>)>>
ScenarioC ==
    <<Line(<<Label(<<"s","t","a","r","t">>), DAT, <<"5">>>>),
      Line(<<LDA, <<"s","t","a","r","t">>>>),
      Line(<<OUT>>),
      Line(<<HLT>>)>>
ScenarioD == <<Line(<<Label(<<"a">>), HLT>>), Line(<<Label(<<"a">>), HLT>>)>>
Scenarios == {ScenarioA, ScenarioB, ScenarioC, ScenarioD}

\* programs that fill the memory: an optional branch to the label end, k
\* HLT lines around the size of the memory, and a tail that may define end
Pad(k) == [i \in 1..k |-> Line(<<HLT>>)]
End == <<"e","n","d">>
Heads == { <<>>, <<Line(<<BRA, End>>)>> }
Tails ==
    { <<>>,
      <<Label(End)>>,
      <<Line(<<Label(End), OUT>>)>>,
      <<Line(<<HLT>>)>>,
      <<Line(<<HLT>>), Label(End)>>,
      <<Line(<<HLT>>), Line(<<Label(End), OUT>>)>>,
      <<Line(<<HLT>>), Line(<<HLT>>)>>,
      <<Label(End), Line(<<Label(End), OUT>>)>> }
LongPrograms ==
    { head \o Pad(k) \o tail : head \in Heads,
                               k \in (memory_size - 2)..memory_size,
                               tail \in Tails }

\* INP, OUT and HLT followed by no token, a number in and out of range, a
\* defined label, an undefined label and text that is no number
IoTokens ==
    { <<>>, <<"7">>, <<"1","0","0","0">>, <<"b">>, <<"z","z">>, <<"0","x","g">> }
IoPrograms ==
    { <<Line(<<DAT, <<"3">>>>), Line(<<Label(<<"b">>), m, t>>), Line(<<m>>)>> :
          m \in {INP, OUT, HLT}, t \in IoTokens }

\* DAT lines at the ends of the range and just outside it, in the three
\* notations, followed by a DAT line without operand
DatTokens ==
    { <<"9","9","9">>, <<"-","9","9","9">>, <<"1","0","0","0">>, <<"-","1","0","0","0">>,
      <<"0","x","3","E","7">>, <<"0","x","3","e","8">>, <<"0","b","1","0","1">>,
      <<"-","0","x","1","0">>, <<"+","7">>, <<"0","0","7">> }
DatPrograms ==
    { <<Line(<<HLT>>), Line(<<DAT, t>>), Line(<<Label(<<"z">>), DAT>>)>> : t \in DatTokens }

Programs ==
    SeqsUpTo(Catalogue, MaxLines) \cup Scenarios \cup LongPrograms \cup IoPrograms
        \cup DatPrograms

\* programs whose emitted program exercises the interpreter
DatValues == {-999, -5, 0, 3, 500, 999}
X == <<"x">>
Y == <<"y">>
ArithmeticProgram(op, u, v) ==
    <<Line(<<LDA, X>>), Line(<<op, Y>>), Line(<<OUT>>), Line(<<HLT>>),
      Line(<<Label(X), DAT, Str(u)>>), Line(<<Label(Y), DAT, Str(v)>>)>>
ArithmeticPrograms ==
    { ArithmeticProgram(op, u, v) : op \in {ADD, SUB, MUL}, u \in DatValues, v \in DatValues }
\* scenario B followed by data that puts v at address 5
LoopProgram(v) == ScenarioB \o <<Line(<<DAT>>), Line(<<DAT, Str(v)>>)>>
LoopPrograms == { LoopProgram(v) : v \in DatValues }
\* a countdown from the input: INP, BRZ, SUB, STA, BRP, BRA and OUT at work
Countdown ==
    <<Line(<<INP>>),
      Line(<<Label(<<"t","o","p">>), STA, <<"n">>>>),
      Line(<<BRZ, End>>),
      Line(<<SUB, <<"o","n","e">>>>),
      Line(<<BRP, <<"t","o","p">>>>),
      Line(<<Label(End), LDA, <<"n">>>>),
      Line(<<OUT>>),
      Line(<<BRA, <<"l","a","s","t">>>>),
      Line(<<Label(<<"o","n","e">>), DAT, <<"1">>>>),
      Line(<<Label(<<"n">>), DAT>>),
      Line(<<Label(<<"l","a","s","t">>), DAT, <<"9","5","0">>>>),
      Line(<<DAT, <<"-","1","5","0">>>>)>>
\* BRP after a SUB, then BRP and BRZ on the word at y, taken or not
Skip == <<"s","k","i","p">>
BranchProgram(u, v) ==
    <<Line(<<LDA, X>>),
      Line(<<SUB, Y>>),
      Line(<<BRP, Skip>>),
      Line(<<OUT>>),
      Line(<<Label(Skip), LDA, Y>>),
      Line(<<BRP, End>>),
      Line(<<BRZ, End>>),
      Line(<<OUT>>),
      Line(<<Label(End), HLT>>),
      Line(<<Label(X), DAT, Str(u)>>),
      Line(<<Label(Y), DAT, Str(v)>>)>>
BranchPrograms == { BranchProgram(u, v) : u \in {3, 999}, v \in {-999, 0, 500} }
\* a difference above 999 stored in the next word and then fetched
WideWord ==
    <<Line(<<LDA, X>>),
      Line(<<SUB, Y>>),
      Line(<<STA, <<"w">>>>),
      Line(<<Label(<<"w">>), DAT>>),
      Line(<<Label(X), DAT, <<"9","9","9">>>>),
      Line(<<Label(Y), DAT, <<"-","9","9","9">>>>)>>
\* an OUT stored in the last word of the memory and then branched to
LastWord ==
    <<Line(<<LDA, <<"w">>>>),
      Line(<<STA, <<"9","9">>>>),
      Line(<<BRA, <<"9","9">>>>),
      Line(<<Label(<<"w">>), DAT, <<"9","0","2">>>>)>>
\* arithmetic on an input, with no negative word in the program
InputSums ==
    <<Line(<<INP>>),
      Line(<<STA, <<"n">>>>),
      Line(<<ADD, <<"n">>>>),
      Line(<<MUL, <<"n">>>>),
      Line(<<SUB, <<"k">>>>),
      Line(<<OUT>>),
      Line(<<HLT>>),
      Line(<<Label(<<"n">>), DAT>>),
      Line(<<Label(<<"k">>), DAT, <<"5","0","0">>>>)>>
RunPrograms ==
    ArithmeticPrograms \cup LoopPrograms \cup Scenarios \cup {Countdown}
        \cup BranchPrograms \cup {WideWord, LastWord, InputSums}

Init == \E src \in Programs : Construct(src)

Next ==
    \/ FirstPassLine
    \/ FirstPassReturn
    \/ AssembleLine
    \/ AssembleReturn
    \/ RunStart
    \/ LoopExit
    \/ Fetch
    \/ Execute

Spec == Init /\ [][Next]_vars

\* the same machine on the programs that exercise the interpreter
InitRun == \E src \in RunPrograms : Construct(src)
SpecRun == InitRun /\ [][Next]_vars

\* one instance used for several assemble calls: a later call finds the
\* instance as the previous call left it
MaxCalls == 2
ReusePrograms == Scenarios \cup {<<Line(<<INP>>), Line(<<Label(<<"a">>), DAT>>)>>}
Reuse ==
    /\ at \in {"returned", "raised"}
    /\ calls < MaxCalls
    /\ \E src \in ReusePrograms : lines' = src
    /\ at' = "first_pass"
    /\ line_number' = 0
    /\ address' = 0
    /\ machine_code' = <<>>
    /\ c_code' = None
    /\ raised' = None
    /\ placed' = <<>>
    /\ calls' = calls + 1
    /\ UNCHANGED <<labels, memory>>
    /\ run' = "off"
    /\ c_memory' = None
    /\ accumulator' = None
    /\ pc' = None
    /\ instruction' = None
    /\ operand' = None
    /\ running' = None
    /\ input_value' = None
    /\ stdout' = None

InitReuse == \E src \in ReusePrograms : Construct(src)
NextReuse == Next \/ Reuse
SpecReuse == InitReuse /\ [][NextReuse]_vars

(***************************************************************************)
(* Properties of the two passes                                            *)
(***************************************************************************)
\* the parse of the source line with 0-based index n
ParsedAt(n) == parse_line(lines[n + 1])
HasMnemonic(n) == Truthy(ParsedAt(n).instruction)
HasLabel(n) == Truthy(ParsedAt(n).label)
LabelAt(n) == ParsedAt(n).label[1]
LineNumbers == 0..(Len(lines) - 1)
LabelLines == {n \in LineNumbers : HasLabel(n)}

\* the mnemonics that take an address, and their opcode digits
AddressMnemonics == {ADD, SUB, STA, MUL, LDA, BRA, BRZ, BRP}
OpcodeDigit(m) ==
    CASE m = ADD -> 1 [] m = SUB -> 2 [] m = STA -> 3 [] m = MUL -> 4
      [] m = LDA -> 5 [] m = BRA -> 6 [] m = BRZ -> 7 [] m = BRP -> 8
TakesAddress(n) == HasMnemonic(n) /\ ParsedAt(n).instruction[1] \in AddressMnemonics
\* line n is an address-taking line whose operand token is l
RefersTo(n, l) == TakesAddress(n) /\ ParsedAt(n).operand = Some(l)

\* the stores of pass 2 for line n
StoresOf(n) == {k \in 1..Len(placed) : placed[k].line_number = n}
JustReturned == at = "returned" /\ run = "off"
LastPlaced == placed[Len(placed)]

\* C1: when assemble accepts a program, a label defined on a line with a
\* mnemonic is mapped by pass 1 to the address at which pass 2 stored that
\* line's word, and every line that refers to the label, before or after the
\* definition, is encoded with that address.
C1_LabelsMatchPass2 ==
    JustReturned =>
        \A d \in {n \in LabelLines : HasMnemonic(n)} :
            /\ Cardinality(StoresOf(d)) = 1
            /\ LabelAt(d) \in DOMAIN labels
            /\ \A k \in StoresOf(d) :
                /\ labels[LabelAt(d)] = placed[k].address
                /\ \A r \in {n \in LineNumbers : RefersTo(n, LabelAt(d))} :
                      \A j \in StoresOf(r) :
                          placed[j].word =
                              OpcodeDigit(ParsedAt(r).instruction[1]) * 100 + placed[k].address

\* a returned program in which a label defined on a mnemonic line at a
\* nonzero address is referred to both before and after its definition
C1_Witness ==
    /\ JustReturned
    /\ \E d \in {n \in LabelLines : HasMnemonic(n)} :
          /\ labels[LabelAt(d)] > 0
          /\ \E r \in 0..(d - 1) : RefersTo(r, LabelAt(d))
          /\ \E r \in (d + 1)..(Len(lines) - 1) : RefersTo(r, LabelAt(d))

\* C4: the word of every line with a mnemonic is stored at the address that
\* equals the number of lines with a mnemonic strictly before it; the n-th
\* store goes to address n - 1.  (Every store is the last entry of placed in
\* the state that follows it.)
MnemonicLinesBefore(n) == Cardinality({m \in 0..(n - 1) : HasMnemonic(m)})
C4_AddressesGapless ==
    (at # "first_pass" /\ run = "off" /\ placed # <<>>) =>
        /\ HasMnemonic(LastPlaced.line_number)
        /\ LastPlaced.address = MnemonicLinesBefore(LastPlaced.line_number)
        /\ LastPlaced.address = Len(placed) - 1
        /\ (at = "returned" => Len(placed) = MnemonicLinesBefore(Len(lines)))

\* a store at a nonzero address after blank, comment-only or label-only lines
C4_Witness ==
    /\ JustReturned
    /\ placed # <<>>
    /\ LastPlaced.address > 0
    /\ LastPlaced.line_number > LastPlaced.address

\* the address an address-taking line resolves to: from the label table when
\* the operand token is a label, else the literal
ResolvedAddress(n) ==
    LET token == ParsedAt(n).operand[1]
    IN  IF token \in DOMAIN labels THEN labels[token] ELSE parse_operand(token)[1]

\* C2: no instruction word is ever produced from a resolved operand address
\* outside [0,99].  (Every store is the last entry of placed in the state that
\* follows it.)
C2_NoWordFromAddressOutOfRange ==
    (at # "first_pass" /\ run = "off" /\ placed # <<>>
        /\ TakesAddress(LastPlaced.line_number)) =>
        ResolvedAddress(LastPlaced.line_number) \in OperandMin..OperandMax

\* C3: after a successful assemble every word of an address-taking line is
\* opcode_digit * 100 + resolved address, lies in [100,899], and the decode of
\* the emitted interpreter gives back the digit and the address.
C3_WordIsDigitAndAddress ==
    JustReturned =>
        \A k \in 1..Len(placed) :
            TakesAddress(placed[k].line_number) =>
                LET digit == OpcodeDigit(ParsedAt(placed[k].line_number).instruction[1])
                    resolved == ResolvedAddress(placed[k].line_number)
                IN  /\ placed[k].word = digit * 100 + resolved
                    /\ placed[k].word \in 100..899
                    /\ DecodeInstruction(placed[k].word) = digit
                    /\ DecodeOperand(placed[k].word) = resolved

AssemblyErrors ==
    {"InvalidInstructionError", "DuplicateLabelError", "OperandRangeError",
     "InvalidOperandError"}

\* C5: assemble returns, or fails with one of the four error kinds.
C5_OnlyTheFourErrorKinds ==
    at = "raised" => raised[1].kind \in AssemblyErrors

\* C6: every error of the four kinds carries the 1-based number of the line
\* that caused it, the line the pass was at when it raised.
C6_ErrorCarriesItsLine ==
    (at = "raised" /\ raised[1].kind \in AssemblyErrors) =>
        raised[1].line = Some(line_number + 1)

\* the label each line defines, <<>> for a line that defines none
LabelsDefined ==
    [n \in LineNumbers |->
        LET label == ParsedAt(n).label IN IF Truthy(label) THEN label[1] ELSE <<>>]
\* the lines that define a label already defined on an earlier line
SecondDefinitions ==
    LET defined == LabelsDefined
    IN  {n \in LineNumbers :
            defined[n] # <<>> /\ \E m \in 0..(n - 1) : defined[m] = defined[n]}
FirstSecondDefinition == Min(SecondDefinitions)
\* a line that fails in pass 2 whatever the label table holds
FailsInPass2(n) ==
    /\ HasMnemonic(n)
    /\ Encode(ParsedAt(n), NewLabels, n).raise # None

\* C7: a program that defines a label name on two lines never gets past
\* pass 1: assemble fails with DuplicateLabelError citing the 1-based line of
\* the second definition, whatever other errors the lines before or after it
\* hold.
C7_DuplicateLabelWins ==
    (at # "first_pass" /\ run = "off") =>
        LET second == SecondDefinitions
        IN  second # {} =>
                /\ at = "raised"
                /\ raised = Some([kind |-> "DuplicateLabelError",
                                  line |-> Some(Min(second) + 1)])

\* a duplicate reported although a line before the second definition and a
\* line after it would each fail in pass 2
C7_Witness ==
    /\ at = "raised"
    /\ raised[1].kind = "DuplicateLabelError"
    /\ SecondDefinitions # {}
    /\ \E n \in 0..(FirstSecondDefinition - 1) : FailsInPass2(n)
    /\ \E n \in (FirstSecondDefinition + 1)..(Len(lines) - 1) : FailsInPass2(n)

\* the words of the three mnemonics that take no operand
IoMnemonics == {INP, OUT, HLT}
IoWord(m) == CASE m = INP -> 901 [] m = OUT -> 902 [] m = HLT -> 0
\* pass 2 is at a line whose mnemonic is INP, OUT or HLT
AtIoLine ==
    /\ at = "assemble"
    /\ line_number < Len(lines)
    /\ HasMnemonic(line_number)
    /\ ParsedAt(line_number).instruction[1] \in IoMnemonics

\* C11: an INP, OUT or HLT line is encoded as 901, 902 or 0 whatever operand
\* token follows the mnemonic: the step of pass 2 at such a line, at an address
\* of the memory, raises nothing, stores that word at the current address,
\* lists it and advances the address by exactly one; and no such line ever
\* ends pass 2 with one of the four assembly errors.
C11_IoWordsIgnoreOperand ==
    [][AtIoLine =>
          IF address \in DOMAIN memory
          THEN /\ at' = "assemble"
               /\ raised' = None
               /\ memory' = [memory EXCEPT ![address] =
                                Some(IoWord(ParsedAt(line_number).instruction[1]))]
               /\ Len(machine_code') = Len(machine_code) + 1
               /\ address' = address + 1
               /\ line_number' = line_number + 1
          ELSE raised'[1].kind \notin AssemblyErrors]_vars

\* an INP, OUT or HLT line with an operand token that is neither a number nor
\* a defined label has been encoded, at a nonzero address
C11_Witness ==
    /\ at = "assemble"
    /\ placed # <<>>
    /\ LastPlaced.address > 0
    /\ LET parsed == ParsedAt(LastPlaced.line_number)
       IN  /\ parsed.instruction[1] \in IoMnemonics
           /\ parsed.operand # None
           /\ parsed.operand[1] \notin DOMAIN labels
           /\ parse_operand(parsed.operand[1]) = None
           /\ LastPlaced.word = IoWord(parsed.instruction[1])

\* pass 2 is at a DAT line
AtDatLine ==
    /\ at = "assemble"
    /\ line_number < Len(lines)
    /\ ParsedAt(line_number).instruction = Some(DAT)
\* the value of the operand of the DAT line pass 2 is at: 0 when there is no
\* operand, None when the operand is no literal
DatValue ==
    LET token == ParsedAt(line_number).operand
    IN  IF token = None THEN Some(0) ELSE parse_operand(token[1])
StoresAtAddress(value) ==
    /\ at' = "assemble"
    /\ raised' = None
    /\ memory' = [memory EXCEPT ![address] = Some(value)]
    /\ address' = address + 1
    /\ line_number' = line_number + 1

\* C12: the step of pass 2 at a DAT line stores the literal value of the
\* operand at the current address when the value lies in [-999,999], stores 0
\* when there is no operand, and when the value lies outside [-999,999] fails
\* with OperandRangeError and stores nothing.  (The store needs the current
\* address to be an address of the memory.)
C12_DatStoresItsValue ==
    [][(AtDatLine /\ DatValue # None) =>
          IF DatValue[1] \in -999..999
          THEN address \in DOMAIN memory => StoresAtAddress(DatValue[1])
          ELSE /\ at' = "raised"
               /\ raised'[1].kind = "OperandRangeError"
               /\ memory' = memory
               /\ machine_code' = machine_code]_vars

\* a DAT line with a negative value at the end of the range was stored at a
\* nonzero address, and after it a DAT line without operand was stored as 0
C12_Witness ==
    /\ at = "assemble"
    /\ Len(placed) >= 2
    /\ LET before == placed[Len(placed) - 1]
       IN  /\ ParsedAt(before.line_number).instruction = Some(DAT)
           /\ before.address > 0
           /\ before.word = -999
           /\ memory[before.address] = Some(-999)
    /\ ParsedAt(LastPlaced.line_number).instruction = Some(DAT)
    /\ ParsedAt(LastPlaced.line_number).operand = None
    /\ memory[LastPlaced.address] = Some(0)

\* the memory image with every unset slot read as 0
ImageWords == [a \in DOMAIN memory |-> IF memory[a] = None THEN 0 ELSE memory[a][1]]
\* the initialisers of the emitted program for slot a
InitialisersOf(a) == {k \in 1..Len(c_code[1]) : c_code[1][k][1] = a}
\* the addresses pass 2 of this call stored a word at
WrittenAddresses == {placed[k].address : k \in 1..Len(placed)}

\* C13: the emitted program of a call on a new instance starts with the memory
\* image of pass 2, an unset slot read as 0: the step that starts it leaves
\* memory[a] equal to the image for every a, there is exactly one initialiser
\* for each slot that holds a value, it carries that value, and there is none
\* for a slot that pass 2 of this call did not write.
C13_InitialMemoryIsImage ==
    [][(run = "off" /\ run' = "loop") =>
          /\ c_memory' = ImageWords
          /\ \A a \in DOMAIN memory :
                /\ Cardinality(InitialisersOf(a)) = (IF memory[a] # None THEN 1 ELSE 0)
                /\ \A k \in InitialisersOf(a) : Some(c_code[1][k][2]) = memory[a]
                /\ (a \notin WrittenAddresses => InitialisersOf(a) = {})]_vars

\* an emitted program about to fetch its first word, started from an image
\* with a negative word, a word 0 that pass 2 stored, and unset slots
C13_Witness ==
    /\ run = "loop"
    /\ pc = 0
    /\ stdout = None
    /\ c_memory = ImageWords
    /\ Len(c_code[1]) = Len(placed)
    /\ \E a \in DOMAIN memory : memory[a] = Some(0) /\ InitialisersOf(a) # {}
    /\ \E a \in DOMAIN memory : c_memory[a] < 0
    /\ \E a \in DOMAIN memory : memory[a] = None /\ c_memory[a] = 0

(***************************************************************************)
(* Properties of an instance used for several calls                        *)
(***************************************************************************)
CallStarts == at = "first_pass" /\ line_number = 0
NothingStored == DOMAIN labels = {} /\ \A a \in DOMAIN memory : memory[a] = None

\* C8 as claimed: every assemble call on an instance starts from an empty
\* label table and an all-unset memory image.
C8_EachCallStartsFresh == CallStarts => NothingStored

\* C8 as amended: the label table and the memory image are created once per
\* instance: the first call starts from an empty label table and an all-unset
\* memory image, and a later call on the same instance starts from the table
\* and the image the previous call left.
C8_FreshPerInstance ==
    /\ [](CallStarts /\ calls = 1 => NothingStored)
    /\ [][calls' # calls => (labels' = labels /\ memory' = memory)]_vars

\* a second call that starts with labels and words of the first
C8_Witness ==
    /\ CallStarts
    /\ calls = 2
    /\ DOMAIN labels # {}
    /\ \E a \in DOMAIN memory : memory[a] # None

(***************************************************************************)
(* Properties of the emitted program                                       *)
(***************************************************************************)
\* C9: executing ADD sets the accumulator to (accumulator + memory[operand])
\* mod 1000 and executing MUL sets it to (accumulator * memory[operand])
\* mod 1000, the modulus being the one with a result in [0,999].
C9_AddMulModulo ==
    [][(run = "switch" /\ run' = "loop" /\ instruction \in {1, 4}) =>
          accumulator' =
              (IF instruction = 1
               THEN accumulator + c_memory[operand]
               ELSE accumulator * c_memory[operand]) % 1000]_vars

\* the source starts with the four lines of scenario B
RunsTheLoop == Len(lines) >= 4 /\ SubSeq(lines, 1, 4) = ScenarioB

\* C10: the emitted program of scenario B never terminates, whatever
\* memory[5] holds: running stays 1, the program is always at the loop test or
\* in the switch, it only fetches from the addresses 0, 1 and 2 (pc is 3 only
\* between the fetch of BRA and its effect), and the HLT at 3 is never fetched.
C10_LoopNeverHalts ==
    (RunsTheLoop /\ run # "off") =>
        /\ running = 1
        /\ run \in {"loop", "switch"}
        /\ (run = "loop" => pc \in 0..2)
        /\ (run = "switch" => pc \in 1..3 /\ instruction # 0)

\* back at address 0 after a turn of the loop with a negative word at address 5
C10_Witness ==
    /\ RunsTheLoop
    /\ run = "loop"
    /\ pc = 0
    /\ c_memory[5] < 0
    /\ accumulator = ExecAdd(c_memory[5], c_memory[5])
    /\ accumulator # 0

\* the interpreter fetches: from while (running) to the switch
Fetches == run = "loop" /\ run' = "switch"
\* the interpreter executes the fetched instruction and goes on with the loop
Executes == run = "switch" /\ run' = "loop"
\* the branch of the fetched instruction is taken
Taken ==
    \/ instruction = 6
    \/ instruction = 7 /\ accumulator = 0
    \/ instruction = 8 /\ accumulator >= 0

\* C14: a fetch reads the word at pc and increments pc before the instruction
\* takes effect; a taken branch (BRA always, BRZ on accumulator = 0, BRP on
\* accumulator >= 0) then leaves pc at its operand address, and every other
\* instruction that does not end the run, an untaken branch included, leaves
\* pc at the address after the one fetched, so the next fetch reads from there.
C14_PcAfterFetchAndBranch ==
    [][/\ Fetches =>
            /\ instruction' = DecodeInstruction(c_memory[pc])
            /\ operand' = DecodeOperand(c_memory[pc])
            /\ pc' = pc + 1
            /\ accumulator' = accumulator /\ c_memory' = c_memory
       /\ (Executes /\ instruction # 0) =>
            pc' = IF Taken THEN operand ELSE pc]_vars

\* after an untaken BRP at address 5 and an untaken BRZ at address 6 the
\* program counter is 7, the address that follows
C14_Witness ==
    /\ run = "loop"
    /\ pc = 7
    /\ instruction = 7
    /\ accumulator < 0
    /\ DecodeInstruction(c_memory[5]) = 8
    /\ DecodeOperand(c_memory[5]) # 6
    /\ DecodeOperand(c_memory[6]) # 7

\* C15: executing a word with opcode 9 and an operand other than 1 and 2 has
\* no observable effect: the run goes on, the accumulator, every memory word
\* and the running flag keep their values, nothing is read and nothing is
\* printed, and the program counter stays at the address after the word, where
\* the fetch left it.
C15_OtherIoOperandIsNoOp ==
    [][(run = "switch" /\ instruction = 9 /\ operand \notin {1, 2}) =>
          /\ run' = "loop"
          /\ accumulator' = accumulator
          /\ c_memory' = c_memory
          /\ running' = running
          /\ input_value' = input_value
          /\ stdout' = stdout
          /\ pc' = pc
          /\ c_memory[pc - 1] = 900 + operand]_vars

\* the word 950 at address 10 was executed after an input and an output, and
\* the run goes on at address 11
C15_Witness ==
    /\ run = "loop"
    /\ pc = 11
    /\ instruction = 9
    /\ operand = 50
    /\ running = 1
    /\ input_value > 0
    /\ stdout = <<<<"Enter a value (0-999): ">>, <<"Output: ", accumulator>>>>

\* the words of the machine: 0 to 999
Words == 0..999
\* the emitted program started with every memory word in [0,999]
StartedInRange ==
    /\ run # "off"
    /\ \A k \in 1..Len(c_code[1]) : c_code[1][k][2] \in Words

\* C16: when every word of the initial memory of the emitted program lies in
\* [0,999], then after any number of executed instructions and any inputs the
\* accumulator and every memory word lie in [0,999].
C16_WordsStayInRange ==
    StartedInRange =>
        /\ accumulator \in Words
        /\ \A a \in DOMAIN c_memory : c_memory[a] \in Words

\* a program without negative words read the input 999, stored it, and its
\* ADD and MUL went past 999 before the modulus
C16_Witness ==
    /\ StartedInRange
    /\ run = "loop"
    /\ pc = 4
    /\ instruction = 4
    /\ input_value = 999
    /\ c_memory[7] = 999
    /\ accumulator = 2

\* the indices of int memory[100]
Indices == 0..99

\* C17: whatever the memory holds at run time, every read and write of the
\* memory uses an index in [0,99]: no access is out of bounds, the word in the
\* switch was fetched at pc - 1 in [0,99], the operand of ADD, SUB, STA, MUL
\* and LDA is in [0,99]; and the program counter stays in [0,100].
C17_IndicesInBounds ==
    run # "off" =>
        /\ run # "undefined"
        /\ pc \in 0..100
        /\ run = "switch" =>
              /\ pc - 1 \in Indices
              /\ (instruction \in 1..5 => operand \in Indices)

\* a run that read a negative word as an operand, stored a word above 999,
\* fetched it and stopped at it
C17_Witness ==
    /\ run = "exited"
    /\ pc = 4
    /\ c_memory[5] < 0
    /\ c_memory[3] > 999
    /\ instruction = DecodeInstruction(c_memory[3])
    /\ instruction > 9

\* C18: the accumulator is never negative immediately after a SUB, whatever
\* the accumulator and the word were, and it is still so when the next
\* instruction is fetched; a BRP fetched directly after a SUB therefore finds
\* accumulator >= 0, and a BRP that finds accumulator >= 0 takes its branch.
C18_NonNegativeAfterSub ==
    [][/\ (Executes /\ instruction = 2) => accumulator' >= 0
       /\ (Fetches /\ pc > 0 /\ instruction = 2) =>
              (accumulator' = accumulator /\ accumulator' >= 0)
       /\ (Executes /\ instruction = 8 /\ accumulator >= 0) => pc' = operand]_vars

\* 3 - 500 left 0 in the accumulator, and the BRP at the next address took
\* its branch to address 4
C18_Witness ==
    /\ run = "loop"
    /\ pc = 4
    /\ instruction = 8
    /\ operand = 4
    /\ accumulator = 0
    /\ DecodeInstruction(c_memory[1]) = 2
    /\ DecodeInstruction(c_memory[2]) = 8
    /\ c_memory[9] < c_memory[10]
====
